---------------------------- MODULE Spec2Model ----------------------------
(***************************************************************************)
(* The todo list of src/app/page.tsx (the base variant) and of             *)
(* src/app/optimized/page.tsx (the optimized variant), as one state        *)
(* machine: every event is handled by both variants, with the same         *)
(* arguments and the same reading of the clock, so that the two            *)
(* collections can be compared after every event.                          *)
(*                                                                         *)
(* A string is a sequence of one-character strings.  Each event is         *)
(* handled after the re-render the previous event caused, so the `todos`   *)
(* a handler closes over is the current collection.  The operations are    *)
(* called with any id and any text, as the controller allows, not only     *)
(* with those the rendered controls offer.  The clock does not go back.    *)
(*                                                                         *)
(* Spec is that machine.  SpecUI offers only the events the rendered       *)
(* controls offer.  SpecBatch lets up to MaxBatch events be handled by     *)
(* the handlers of one render, before the component renders again.         *)
(***************************************************************************)
EXTENDS Naturals, Sequences, FiniteSets

\* ------------------------------------------------------------------ bounds
\* The collection grows to at most MaxTodos entries.
MaxTodos == 2
\* Date.now() reads a value in 0..MaxClock.
MaxClock == 1
\* At most MaxBatch events are handled by the handlers of one render.
MaxBatch == 2

\* The strings a user types into the draft field or into an edit field:
\* empty, blank, plain, and with leading and trailing whitespace.
Texts == { <<>>, <<" ">>, <<"a">>, <<" ", "a", " ">> }

\* The ids a handler is called with: every clock value, and one value no
\* todo ever carries.
Ids == 0 .. (MaxClock + 1)

VARIABLES
    bTodos,     \* base variant: useState<Todo[]>([])
    bNewTodo,   \* base variant: useState("") of TodoList, the draft
    oTodos,     \* optimized variant: useState<Todo[]>([])
    oNewTodo,   \* optimized variant: useState("") of TodoInput, the draft
    now,        \* the value Date.now() returns
    bRender,    \* base variant: the todos and newTodo of the last render,
                \* which its handlers close over
    oRender,    \* optimized variant: the same
    handled     \* the events handled since the last render

vars == <<bTodos, bNewTodo, oTodos, oNewTodo, now, bRender, oRender, handled>>

\* ------------------------------------------------------- String.prototype
IsSpace(c) == c = " "

RECURSIVE TrimStart(_)
TrimStart(s) ==
    IF s # <<>> /\ IsSpace(Head(s)) THEN TrimStart(Tail(s)) ELSE s

RECURSIVE TrimEnd(_)
TrimEnd(s) ==
    IF s # <<>> /\ IsSpace(s[Len(s)])
    THEN TrimEnd(SubSeq(s, 1, Len(s) - 1))
    ELSE s

\* newTodo.trim()
Trim(s) == TrimEnd(TrimStart(s))

\* ------------------------------------------------------------------ Todo
\* todos.map(f) is [i \in DOMAIN todos |-> f(todos[i])], the array of the
\* same length with f applied at every position; todos.filter(p) is
\* SelectSeq(todos, p), the entries satisfying p in their order.

\* { id: Date.now(), text, completed: false, isEditing: false }
NewTodo(id, text) ==
    [id |-> id, text |-> text, completed |-> FALSE, isEditing |-> FALSE]

\* whether some todo of the collection carries the id
Present(todos, id) == \E i \in DOMAIN todos : todos[i].id = id

\* --------------------------------------------- base variant, src/app/page.tsx
\* A variant of addTodo that puts the new todo first: [newItem, ...todos].
addTodo_Prepends(todos, newTodo, clock) ==
    IF Trim(newTodo) # <<>>
    THEN [todos   |-> <<NewTodo(clock, newTodo)>> \o todos,
          newTodo |-> <<>>]
    ELSE [todos |-> todos, newTodo |-> newTodo]

\* addTodo: the new collection and the new draft
addTodo(todos, newTodo, clock) ==
    IF Trim(newTodo) # <<>>
    THEN [todos   |-> Append(todos, NewTodo(clock, newTodo)),
          newTodo |-> <<>>]
    ELSE [todos |-> todos, newTodo |-> newTodo]

\* A variant of toggleTodo that sinks the completed todos to the end of the
\* list: [...open, ...done].
toggleTodo_DoneLast(todos, id) ==
    LET flipped == [i \in DOMAIN todos |->
                       IF todos[i].id = id
                        THEN [todos[i] EXCEPT !.completed = ~todos[i].completed]
                        ELSE todos[i]]
    IN  SelectSeq(flipped, LAMBDA todo : ~todo.completed)
            \o SelectSeq(flipped, LAMBDA todo : todo.completed)

\* A variant of toggleTodo that marks the todo done: completed: true.
toggleTodo_SetsTrue(todos, id) ==
    [i \in DOMAIN todos |->
        IF todos[i].id = id
         THEN [todos[i] EXCEPT !.completed = TRUE]
         ELSE todos[i]]

toggleTodo(todos, id) ==
    [i \in DOMAIN todos |->
        IF todos[i].id = id
         THEN [todos[i] EXCEPT !.completed = ~todos[i].completed]
         ELSE todos[i]]

\* A variant of removeTodo that removes by position:
\* todos.splice(todos.findIndex((todo) => todo.id === id), 1), where
\* findIndex is -1 for an unknown id and splice(-1, 1) removes the last entry.
removeTodo_Splice(todos, id) ==
    IF todos = <<>> THEN todos
    ELSE LET k == IF \E i \in DOMAIN todos : todos[i].id = id
                  THEN CHOOSE i \in DOMAIN todos :
                          /\ todos[i].id = id
                          /\ \A j \in 1 .. (i - 1) : todos[j].id # id
                  ELSE Len(todos)
         IN  SubSeq(todos, 1, k - 1) \o SubSeq(todos, k + 1, Len(todos))

removeTodo(todos, id) == SelectSeq(todos, LAMBDA todo : todo.id # id)

\* A variant of startEditing that keeps one todo in edit mode at a time:
\* isEditing: todo.id === id for every todo.
startEditing_Exclusive(todos, id) ==
    [i \in DOMAIN todos |->
        [todos[i] EXCEPT !.isEditing = (todos[i].id = id)]]

startEditing(todos, id) ==
    [i \in DOMAIN todos |->
        IF todos[i].id = id
         THEN [todos[i] EXCEPT !.isEditing = TRUE]
         ELSE todos[i]]

\* A variant of updateTodoText that edits only a todo in edit mode:
\* todo.id === id && todo.isEditing.
updateTodoText_OnlyEditing(todos, id, newText) ==
    [i \in DOMAIN todos |->
        IF todos[i].id = id /\ todos[i].isEditing
         THEN [todos[i] EXCEPT !.text = newText]
         ELSE todos[i]]

updateTodoText(todos, id, newText) ==
    [i \in DOMAIN todos |->
        IF todos[i].id = id
         THEN [todos[i] EXCEPT !.text = newText]
         ELSE todos[i]]

\* A variant of saveTodoEdit that applies addTodo's test on save: a todo
\* saved with a blank text is dropped.
saveTodoEdit_DropsBlank(todos, id) ==
    SelectSeq([i \in DOMAIN todos |->
                  IF todos[i].id = id
                   THEN [todos[i] EXCEPT !.isEditing = FALSE]
                   ELSE todos[i]],
              LAMBDA todo : todo.id # id \/ Trim(todo.text) # <<>>)

saveTodoEdit(todos, id) ==
    [i \in DOMAIN todos |->
        IF todos[i].id = id
         THEN [todos[i] EXCEPT !.isEditing = FALSE]
         ELSE todos[i]]

\* -------------------------------- optimized variant, src/app/optimized/page.tsx
\* A variant of the optimized addTodo that puts the new todo first:
\* setTodos((prev) => [{...}, ...prev]).
OptAddTodo_Prepends(prev, text, clock) == <<NewTodo(clock, text)>> \o prev

\* addTodo(text): setTodos((prev) => [...prev, {...}])
OptAddTodo(prev, text, clock) == Append(prev, NewTodo(clock, text))

\* A variant of handleAdd that clears the draft on every click:
\* setNewTodo("") after the if.
handleAdd_AlwaysClears(prev, newTodo, clock) ==
    IF Trim(newTodo) # <<>>
    THEN [todos   |-> OptAddTodo(prev, Trim(newTodo), clock),
          newTodo |-> <<>>]
    ELSE [todos |-> prev, newTodo |-> <<>>]

\* A variant of handleAdd that tests the draft without trimming it:
\* newTodo !== "".
handleAdd_NoTrimTest(prev, newTodo, clock) ==
    IF newTodo # <<>>
    THEN [todos   |-> OptAddTodo(prev, Trim(newTodo), clock),
          newTodo |-> <<>>]
    ELSE [todos |-> prev, newTodo |-> newTodo]

\* TodoInput.handleAdd: the new collection and the new draft
handleAdd(prev, newTodo, clock) ==
    IF Trim(newTodo) # <<>>
    THEN [todos   |-> OptAddTodo(prev, Trim(newTodo), clock),
          newTodo |-> <<>>]
    ELSE [todos |-> prev, newTodo |-> newTodo]

OptToggleTodo(prev, id) ==
    [i \in DOMAIN prev |->
        IF prev[i].id = id
         THEN [prev[i] EXCEPT !.completed = ~prev[i].completed]
         ELSE prev[i]]

OptRemoveTodo(prev, id) == SelectSeq(prev, LAMBDA todo : todo.id # id)

OptStartEditing(todos, id) ==
    [i \in DOMAIN todos |->
        IF todos[i].id = id
         THEN [todos[i] EXCEPT !.isEditing = TRUE]
         ELSE todos[i]]

OptUpdateTodoText(todos, id, newText) ==
    [i \in DOMAIN todos |->
        IF todos[i].id = id
         THEN [todos[i] EXCEPT !.text = newText]
         ELSE todos[i]]

OptSaveTodoEdit(todos, id) ==
    [i \in DOMAIN todos |->
        IF todos[i].id = id
         THEN [todos[i] EXCEPT !.isEditing = FALSE]
         ELSE todos[i]]

\* ---------------------------- rendering, src/app/optimized/page.tsx
\* The callbacks TodoList passes to every TodoItem.
ItemCallbacks ==
    {"toggleTodo", "updateTodoText", "startEditing", "saveTodoEdit",
     "removeTodo"}

\* The handlers TodoList wraps in useCallback(..., []): the same function at
\* every render.
UseCallback == {"addTodo", "toggleTodo", "removeTodo"}

\* Whether a handler of TodoList is another function after a re-render of
\* TodoList: a handler that is not wrapped is a new closure at every render.
CallbackChanged(name) == name \notin UseCallback

\* Whether todos.map((todo) => todo.id === id ? {...todo, ...} : todo)
\* returns another object at position j: a new one for a match, the same
\* one otherwise.
NewRecord(todos, id, j) == todos[j].id = id

\* Whether memo re-renders the TodoItem at position j when TodoList
\* re-renders after toggleTodo, updateTodoText, startEditing or
\* saveTodoEdit with that id: some prop is not the one of the last render.
ItemRerenders(todos, id, j) ==
    \/ NewRecord(todos, id, j)
    \/ \E name \in ItemCallbacks : CallbackChanged(name)

\* ------------------------------------------------------------------ events
Init ==
    /\ bTodos = <<>>
    /\ bNewTodo = <<>>
    /\ oTodos = <<>>
    /\ oNewTodo = <<>>
    /\ now = 0
    /\ bRender = [todos |-> <<>>, newTodo |-> <<>>]
    /\ oRender = [todos |-> <<>>, newTodo |-> <<>>]
    /\ handled = 0

\* The clock advances.
Tick ==
    /\ now < MaxClock
    /\ now' = now + 1
    /\ UNCHANGED <<bTodos, bNewTodo, oTodos, oNewTodo, bRender, oRender,
                   handled>>

\* The re-render that follows an event: the components run again with the
\* state the event left, and the handlers close over it.
Rerender ==
    /\ bRender' = [todos |-> bTodos', newTodo |-> bNewTodo']
    /\ oRender' = [todos |-> oTodos', newTodo |-> oNewTodo']
    /\ handled' = 0

\* A keystroke in the draft field: onChange sets the draft to the field's value.
TypeDraft(value) ==
    /\ bNewTodo' = value
    /\ oNewTodo' = value
    /\ UNCHANGED <<bTodos, oTodos, now>>
    /\ Rerender

\* A click on Add.
ClickAdd ==
    /\ Trim(bNewTodo) # <<>> => Len(bTodos) < MaxTodos
    /\ Trim(oNewTodo) # <<>> => Len(oTodos) < MaxTodos
    /\ bTodos' = addTodo(bTodos, bNewTodo, now).todos
    /\ bNewTodo' = addTodo(bTodos, bNewTodo, now).newTodo
    /\ oTodos' = handleAdd(oTodos, oNewTodo, now).todos
    /\ oNewTodo' = handleAdd(oTodos, oNewTodo, now).newTodo
    /\ UNCHANGED now
    /\ Rerender

ToggleTodo(id) ==
    /\ bTodos' = toggleTodo(bTodos, id)
    /\ oTodos' = OptToggleTodo(oTodos, id)
    /\ UNCHANGED <<bNewTodo, oNewTodo, now>>
    /\ Rerender

RemoveTodo(id) ==
    /\ bTodos' = removeTodo(bTodos, id)
    /\ oTodos' = OptRemoveTodo(oTodos, id)
    /\ UNCHANGED <<bNewTodo, oNewTodo, now>>
    /\ Rerender

StartEditing(id) ==
    /\ bTodos' = startEditing(bTodos, id)
    /\ oTodos' = OptStartEditing(oTodos, id)
    /\ UNCHANGED <<bNewTodo, oNewTodo, now>>
    /\ Rerender

UpdateTodoText(id, newText) ==
    /\ bTodos' = updateTodoText(bTodos, id, newText)
    /\ oTodos' = OptUpdateTodoText(oTodos, id, newText)
    /\ UNCHANGED <<bNewTodo, oNewTodo, now>>
    /\ Rerender

SaveTodoEdit(id) ==
    /\ bTodos' = saveTodoEdit(bTodos, id)
    /\ oTodos' = OptSaveTodoEdit(oTodos, id)
    /\ UNCHANGED <<bNewTodo, oNewTodo, now>>
    /\ Rerender

Next ==
    \/ Tick
    \/ \E value \in Texts : TypeDraft(value)
    \/ ClickAdd
    \/ \E id \in Ids : ToggleTodo(id)
    \/ \E id \in Ids : RemoveTodo(id)
    \/ \E id \in Ids : StartEditing(id)
    \/ \E id \in Ids, newText \in Texts : UpdateTodoText(id, newText)
    \/ \E id \in Ids : SaveTodoEdit(id)

Spec == Init /\ [][Next]_vars

\* ------------------------------------- events handled within one render
\* An event whose handler runs before the component has rendered again:
\* the handler is the one the last render created.  setTodos(value) makes
\* value the next state; setTodos((prev) => ...) is applied to the state
\* the earlier handlers left.
Batched ==
    /\ handled < MaxBatch
    /\ handled' = handled + 1
    /\ UNCHANGED <<bRender, oRender>>

HandleTypeDraft(value) ==
    /\ bNewTodo' = value
    /\ oNewTodo' = value
    /\ UNCHANGED <<bTodos, oTodos, now>>
    /\ Batched

\* base: addTodo closes over todos and newTodo; optimized: handleAdd closes
\* over newTodo, and addTodo appends to prev.
HandleClickAdd ==
    /\ Trim(bRender.newTodo) # <<>> => Len(bRender.todos) < MaxTodos
    /\ Trim(oRender.newTodo) # <<>> => Len(oTodos) < MaxTodos
    /\ IF Trim(bRender.newTodo) # <<>>
       THEN /\ bTodos' = addTodo(bRender.todos, bRender.newTodo, now).todos
            /\ bNewTodo' = addTodo(bRender.todos, bRender.newTodo, now).newTodo
       ELSE UNCHANGED <<bTodos, bNewTodo>>
    /\ IF Trim(oRender.newTodo) # <<>>
       THEN /\ oTodos' = handleAdd(oTodos, oRender.newTodo, now).todos
            /\ oNewTodo' = handleAdd(oTodos, oRender.newTodo, now).newTodo
       ELSE UNCHANGED <<oTodos, oNewTodo>>
    /\ UNCHANGED now
    /\ Batched

HandleToggleTodo(id) ==
    /\ bTodos' = toggleTodo(bRender.todos, id)
    /\ oTodos' = OptToggleTodo(oTodos, id)
    /\ UNCHANGED <<bNewTodo, oNewTodo, now>>
    /\ Batched

HandleRemoveTodo(id) ==
    /\ bTodos' = removeTodo(bRender.todos, id)
    /\ oTodos' = OptRemoveTodo(oTodos, id)
    /\ UNCHANGED <<bNewTodo, oNewTodo, now>>
    /\ Batched

HandleStartEditing(id) ==
    /\ bTodos' = startEditing(bRender.todos, id)
    /\ oTodos' = OptStartEditing(oRender.todos, id)
    /\ UNCHANGED <<bNewTodo, oNewTodo, now>>
    /\ Batched

HandleUpdateTodoText(id, newText) ==
    /\ bTodos' = updateTodoText(bRender.todos, id, newText)
    /\ oTodos' = OptUpdateTodoText(oRender.todos, id, newText)
    /\ UNCHANGED <<bNewTodo, oNewTodo, now>>
    /\ Batched

HandleSaveTodoEdit(id) ==
    /\ bTodos' = saveTodoEdit(bRender.todos, id)
    /\ oTodos' = OptSaveTodoEdit(oRender.todos, id)
    /\ UNCHANGED <<bNewTodo, oNewTodo, now>>
    /\ Batched

\* The components render again with the state the handlers left.
Render ==
    /\ handled > 0
    /\ bRender' = [todos |-> bTodos, newTodo |-> bNewTodo]
    /\ oRender' = [todos |-> oTodos, newTodo |-> oNewTodo]
    /\ handled' = 0
    /\ UNCHANGED <<bTodos, bNewTodo, oTodos, oNewTodo, now>>

\* What is typed while events are batched: nothing, or one letter.
BatchTexts == { <<>>, <<"a">> }

NextBatch ==
    \/ Tick
    \/ Render
    \/ \E value \in BatchTexts : HandleTypeDraft(value)
    \/ HandleClickAdd
    \/ \E id \in Ids : HandleToggleTodo(id)
    \/ \E id \in Ids : HandleRemoveTodo(id)
    \/ \E id \in Ids : HandleStartEditing(id)
    \/ \E id \in Ids, newText \in BatchTexts : HandleUpdateTodoText(id, newText)
    \/ \E id \in Ids : HandleSaveTodoEdit(id)

SpecBatch == Init /\ [][NextBatch]_vars

\* --------------------------------------- events of the rendered controls
\* The i-th item of the rendered list: the same todo in both variants.
Item(i) ==
    /\ i \in DOMAIN bRender.todos
    /\ i \in DOMAIN oRender.todos
    /\ bRender.todos[i].id = oRender.todos[i].id

\* The item renders the edit field and the Check button when its todo is
\* being edited, the text and the Pencil button otherwise.
ItemEditing(i) ==
    /\ bRender.todos[i].isEditing
    /\ oRender.todos[i].isEditing

ClickCheckbox(i) ==
    /\ Item(i)
    /\ ToggleTodo(bRender.todos[i].id)

TypeEdit(i, value) ==
    /\ Item(i)
    /\ ItemEditing(i)
    /\ UpdateTodoText(bRender.todos[i].id, value)

ClickCheck(i) ==
    /\ Item(i)
    /\ ItemEditing(i)
    /\ SaveTodoEdit(bRender.todos[i].id)

ClickPencil(i) ==
    /\ Item(i)
    /\ ~ItemEditing(i)
    /\ StartEditing(bRender.todos[i].id)

ClickTrash(i) ==
    /\ Item(i)
    /\ RemoveTodo(bRender.todos[i].id)

NextUI ==
    \/ Tick
    \/ \E value \in Texts : TypeDraft(value)
    \/ ClickAdd
    \/ \E i \in 1 .. MaxTodos : ClickCheckbox(i)
    \/ \E i \in 1 .. MaxTodos, value \in Texts : TypeEdit(i, value)
    \/ \E i \in 1 .. MaxTodos : ClickCheck(i)
    \/ \E i \in 1 .. MaxTodos : ClickPencil(i)
    \/ \E i \in 1 .. MaxTodos : ClickTrash(i)

SpecUI == Init /\ [][NextUI]_vars

\* ------------------------------------------------------------------ claims
Fresh(todo) == todo.completed = FALSE /\ todo.isEditing = FALSE

\* todos with one entry more, the old entries first and unchanged
GrewByOne(before, after) ==
    /\ Len(after) = Len(before) + 1
    /\ \A i \in DOMAIN before : after[i] = before[i]
    /\ Fresh(after[Len(after)])

\* C1: a click on Add with a draft that is not blank after trimming appends
\* exactly one todo, at the end, with completed = false and isEditing =
\* false; the todos already present keep their fields and positions; the
\* draft becomes the empty string.  In both variants.
C1_AddAppendsOne ==
    [][ClickAdd =>
          /\ Trim(bNewTodo) # <<>> =>
                GrewByOne(bTodos, bTodos') /\ bNewTodo' = <<>>
          /\ Trim(oNewTodo) # <<>> =>
                GrewByOne(oTodos, oTodos') /\ oNewTodo' = <<>>]_vars

\* C1's case: a second todo was just added behind a completed one.
C1_Witness ==
    /\ Len(bTodos) = 2 /\ Len(oTodos) = 2
    /\ bTodos[1].completed /\ oTodos[1].completed
    /\ Fresh(bTodos[2]) /\ Fresh(oTodos[2])
    /\ bNewTodo = <<>> /\ oNewTodo = <<>>

\* C2: Add with a draft that is empty or only whitespace changes nothing:
\* for every such draft and every reachable collection, the handler returns
\* the same collection and the same draft.  In both variants.
C2_BlankAddIsNoOp ==
    \A draft \in Texts :
        Trim(draft) = <<>> =>
            /\ addTodo(bTodos, draft, now) =
                   [todos |-> bTodos, newTodo |-> draft]
            /\ handleAdd(oTodos, draft, now) =
                   [todos |-> oTodos, newTodo |-> draft]

\* C2's case: the draft holds a single space while the collection holds a todo.
C2_Witness ==
    /\ bNewTodo = <<" ">> /\ oNewTodo = <<" ">>
    /\ Len(bTodos) >= 1 /\ Len(oTodos) >= 1
    /\ addTodo(bTodos, bNewTodo, now).todos = bTodos
    /\ handleAdd(oTodos, oNewTodo, now).newTodo = <<" ">>

Distinct(todos) ==
    \A i, j \in DOMAIN todos : i # j => todos[i].id # todos[j].id

\* C3: in every reachable state the ids of the todos of the collection are
\* pairwise distinct, also when two adds read the same clock value.
C3_IdsDistinct == Distinct(bTodos) /\ Distinct(oTodos)

\* before with its k-th entry taken out, the others in their order
Without(before, k) ==
    [i \in 1 .. (Len(before) - 1) |->
        IF i < k THEN before[i] ELSE before[i + 1]]

\* after is before without the one todo that carries the id
RemovedOne(before, after, id) ==
    /\ Len(after) = Len(before) - 1
    /\ ~Present(after, id)
    /\ \E k \in DOMAIN before :
          before[k].id = id /\ after = Without(before, k)

\* C4: removeTodo(id) with an id present in the collection shortens it by
\* exactly one, leaves no todo with that id, and leaves every other todo
\* unchanged and in the same relative order.  In both variants.
C4_RemoveTakesOne ==
    [][\A id \in Ids :
          RemoveTodo(id) =>
              /\ Present(bTodos, id) => RemovedOne(bTodos, bTodos', id)
              /\ Present(oTodos, id) => RemovedOne(oTodos, oTodos', id)]_vars

\* The same, for the collections whose ids are pairwise distinct.
C4_RemoveTakesOne_IfDistinct ==
    [][\A id \in Ids :
          RemoveTodo(id) =>
              /\ Present(bTodos, id) /\ Distinct(bTodos) =>
                    RemovedOne(bTodos, bTodos', id)
              /\ Present(oTodos, id) /\ Distinct(oTodos) =>
                    RemovedOne(oTodos, oTodos', id)]_vars

\* after is before with completed negated in exactly one todo, which
\* carries the id; nothing else differs
ToggledOne(before, after, id) ==
    \E k \in DOMAIN before :
        /\ before[k].id = id
        /\ after = [before EXCEPT ![k].completed = ~before[k].completed]

\* C5: toggleTodo(id) with an id present in the collection negates completed
\* of the one todo with that id and changes nothing else: not its id, text
\* or isEditing, no other todo, not the length or the order; in edit mode
\* or not.  In both variants.
C5_ToggleFlipsOne ==
    [][\A id \in Ids :
          ToggleTodo(id) =>
              /\ Present(bTodos, id) => ToggledOne(bTodos, bTodos', id)
              /\ Present(oTodos, id) => ToggledOne(oTodos, oTodos', id)]_vars

\* The same, for the collections whose ids are pairwise distinct.
C5_ToggleFlipsOne_IfDistinct ==
    [][\A id \in Ids :
          ToggleTodo(id) =>
              /\ Present(bTodos, id) /\ Distinct(bTodos) =>
                    ToggledOne(bTodos, bTodos', id)
              /\ Present(oTodos, id) /\ Distinct(oTodos) =>
                    ToggledOne(oTodos, oTodos', id)]_vars

\* C6: toggleTodo is its own inverse: for every reachable collection and
\* every id present in it, toggling that id twice in a row gives back the
\* collection, field by field and in the same order.  In both variants.
C6_ToggleTwice ==
    \A id \in Ids :
        /\ Present(bTodos, id) =>
              toggleTodo(toggleTodo(bTodos, id), id) = bTodos
        /\ Present(oTodos, id) =>
              OptToggleTodo(OptToggleTodo(oTodos, id), id) = oTodos

\* C6's case: two todos, one completed and in edit mode, one neither; a
\* toggle of the first changes the collection.
C6_Witness ==
    /\ Len(bTodos) = 2 /\ Len(oTodos) = 2
    /\ bTodos[1].completed /\ bTodos[1].isEditing
    /\ ~bTodos[2].completed /\ ~bTodos[2].isEditing
    /\ bTodos[1].id # bTodos[2].id
    /\ toggleTodo(bTodos, bTodos[1].id) # bTodos
    /\ OptToggleTodo(oTodos, oTodos[1].id) # oTodos

\* C7: toggleTodo, updateTodoText, startEditing, saveTodoEdit and removeTodo,
\* called with an id that no todo of the collection carries, return the
\* collection unchanged, in every reachable state, the empty collection
\* included.  In both variants.  (The handlers have no failure path.)
C7_UnknownIdIsNoOp ==
    \A id \in Ids :
        /\ ~Present(bTodos, id) =>
              /\ toggleTodo(bTodos, id) = bTodos
              /\ startEditing(bTodos, id) = bTodos
              /\ saveTodoEdit(bTodos, id) = bTodos
              /\ removeTodo(bTodos, id) = bTodos
              /\ \A newText \in Texts :
                    updateTodoText(bTodos, id, newText) = bTodos
        /\ ~Present(oTodos, id) =>
              /\ OptToggleTodo(oTodos, id) = oTodos
              /\ OptStartEditing(oTodos, id) = oTodos
              /\ OptSaveTodoEdit(oTodos, id) = oTodos
              /\ OptRemoveTodo(oTodos, id) = oTodos
              /\ \A newText \in Texts :
                    OptUpdateTodoText(oTodos, id, newText) = oTodos

\* C7's case: the collection holds a todo with id 1, in edit mode, and none
\* with id 0; removeTodo(0) returns the collection as it is.
C7_Witness ==
    /\ Len(bTodos) = 1 /\ Len(oTodos) = 1
    /\ bTodos[1].id = 1 /\ oTodos[1].id = 1
    /\ bTodos[1].isEditing /\ oTodos[1].isEditing
    /\ ~Present(bTodos, 0) /\ ~Present(oTodos, 0)
    /\ removeTodo(bTodos, 0) = bTodos

\* a todo that is not in edit mode and carries the id keeps its text
IdleTextKept(before, after, id) ==
    \A i \in DOMAIN before :
        before[i].id = id /\ ~before[i].isEditing =>
            /\ i \in DOMAIN after
            /\ after[i].text = before[i].text

\* C8 as stated: updateTodoText(id, newText) sets the text only while
\* isEditing is true; called for a todo whose isEditing is false it leaves
\* that todo's text unchanged.
C8_UpdateOnlyInEditMode ==
    [][\A id \in Ids, newText \in Texts :
          UpdateTodoText(id, newText) =>
              /\ IdleTextKept(bTodos, bTodos', id)
              /\ IdleTextKept(oTodos, oTodos', id)]_vars

\* after is before with the text of every todo carrying the id set to
\* newText, in edit mode or not, and nothing else changed
TextSet(before, after, id, newText) ==
    /\ Len(after) = Len(before)
    /\ \A i \in DOMAIN before :
          IF before[i].id = id
          THEN /\ after[i].text = newText
               /\ after[i].id = before[i].id
               /\ after[i].completed = before[i].completed
               /\ after[i].isEditing = before[i].isEditing
          ELSE after[i] = before[i]

\* no todo of after has a text it did not have in before: after is before
\* with flags changed, with an entry appended, or with entries removed
TextsKept(before, after) ==
    \/ /\ Len(after) = Len(before)
       /\ \A i \in DOMAIN before : after[i].text = before[i].text
    \/ /\ Len(after) = Len(before) + 1
       /\ \A i \in DOMAIN before : after[i].text = before[i].text
    \/ /\ Len(after) < Len(before)
       /\ \A i \in DOMAIN after :
             \E j \in DOMAIN before : j >= i /\ after[i] = before[j]

\* C8, amended: updateTodoText(id, newText) sets the text of every todo
\* carrying the id whether its isEditing is true or false (the operation
\* does not test the flag) and changes nothing else; and no other
\* operation changes the text of a todo of the collection.  For every
\* reachable collection and every argument, in both variants.
C8_UpdateSetsTextInAnyMode ==
    /\ \A id \in Ids, newText \in Texts :
          /\ TextSet(bTodos, updateTodoText(bTodos, id, newText), id, newText)
          /\ TextSet(oTodos, OptUpdateTodoText(oTodos, id, newText),
                     id, newText)
    /\ \A id \in Ids :
          /\ TextsKept(bTodos, toggleTodo(bTodos, id))
          /\ TextsKept(bTodos, startEditing(bTodos, id))
          /\ TextsKept(bTodos, saveTodoEdit(bTodos, id))
          /\ TextsKept(bTodos, removeTodo(bTodos, id))
          /\ TextsKept(oTodos, OptToggleTodo(oTodos, id))
          /\ TextsKept(oTodos, OptStartEditing(oTodos, id))
          /\ TextsKept(oTodos, OptSaveTodoEdit(oTodos, id))
          /\ TextsKept(oTodos, OptRemoveTodo(oTodos, id))
    /\ \A draft \in Texts :
          /\ TextsKept(bTodos, addTodo(bTodos, draft, now).todos)
          /\ TextsKept(oTodos, handleAdd(oTodos, draft, now).todos)

\* C8's case: a todo with text "a" is not in edit mode, and
\* updateTodoText with its id and the empty string empties its text.
C8_Witness ==
    \E i \in DOMAIN bTodos :
        /\ i \in DOMAIN oTodos
        /\ ~bTodos[i].isEditing /\ ~oTodos[i].isEditing
        /\ bTodos[i].text = <<"a">> /\ oTodos[i].text = <<"a">>
        /\ updateTodoText(bTodos, bTodos[i].id, <<>>)[i].text = <<>>
        /\ OptUpdateTodoText(oTodos, oTodos[i].id, <<>>)[i].text = <<>>

\* neither sequence differs from the other in a text or a completed flag
SameTextAndCompleted(before, after) ==
    /\ Len(after) = Len(before)
    /\ \A i \in DOMAIN before :
          /\ after[i].text = before[i].text
          /\ after[i].completed = before[i].completed

\* after is before with isEditing = false in one todo, which carries the
\* id, and nothing else changed
EditClosedOnOne(before, after, id) ==
    \E k \in DOMAIN before :
        /\ before[k].id = id
        /\ after = [before EXCEPT ![k].isEditing = FALSE]

\* C9: for every reachable collection and every id present in it,
\* startEditing(id) followed by saveTodoEdit(id) leaves the matching todo
\* with isEditing = false and its text, completed and id as before, and
\* leaves every other todo unchanged; neither operation changes a text or
\* a completed flag.  In both variants.
C9_StartThenSave ==
    \A id \in Ids :
        /\ Present(bTodos, id) =>
              /\ EditClosedOnOne(bTodos,
                     saveTodoEdit(startEditing(bTodos, id), id), id)
              /\ SameTextAndCompleted(bTodos, startEditing(bTodos, id))
              /\ SameTextAndCompleted(bTodos, saveTodoEdit(bTodos, id))
        /\ Present(oTodos, id) =>
              /\ EditClosedOnOne(oTodos,
                     OptSaveTodoEdit(OptStartEditing(oTodos, id), id), id)
              /\ SameTextAndCompleted(oTodos, OptStartEditing(oTodos, id))
              /\ SameTextAndCompleted(oTodos, OptSaveTodoEdit(oTodos, id))

\* The same, for the collections whose ids are pairwise distinct.
C9_StartThenSave_IfDistinct ==
    \A id \in Ids :
        /\ Present(bTodos, id) /\ Distinct(bTodos) =>
              /\ EditClosedOnOne(bTodos,
                     saveTodoEdit(startEditing(bTodos, id), id), id)
              /\ SameTextAndCompleted(bTodos, startEditing(bTodos, id))
              /\ SameTextAndCompleted(bTodos, saveTodoEdit(bTodos, id))
        /\ Present(oTodos, id) /\ Distinct(oTodos) =>
              /\ EditClosedOnOne(oTodos,
                     OptSaveTodoEdit(OptStartEditing(oTodos, id), id), id)
              /\ SameTextAndCompleted(oTodos, OptStartEditing(oTodos, id))
              /\ SameTextAndCompleted(oTodos, OptSaveTodoEdit(oTodos, id))

\* C10: the two variants are the same state machine: after every event,
\* handled by both with the same arguments and the same clock reading, the
\* two collections are equal: same length, same order, and the same id,
\* text, completed and isEditing in each todo.
C10_VariantsEqual == bTodos = oTodos

\* What the two collections do share: length, order, ids and flags, and
\* each text up to the whitespace the optimized variant trims at the add.
C10_VariantsEqual_UpToTrim ==
    /\ Len(bTodos) = Len(oTodos)
    /\ bNewTodo = oNewTodo
    /\ \A i \in DOMAIN bTodos :
          /\ oTodos[i].id = bTodos[i].id
          /\ oTodos[i].completed = bTodos[i].completed
          /\ oTodos[i].isEditing = bTodos[i].isEditing
          /\ oTodos[i].text \in {bTodos[i].text, Trim(bTodos[i].text)}

\* whether a is b with some entries left out, the others in their order
RECURSIVE IsSubSeq(_, _)
IsSubSeq(a, b) ==
    IF a = <<>> THEN TRUE
    ELSE IF b = <<>> THEN FALSE
    ELSE IF Head(a) = Head(b) THEN IsSubSeq(Tail(a), Tail(b))
    ELSE IsSubSeq(a, Tail(b))

\* every todo stays at its place: same length, same id at every position
SamePlaces(before, after) ==
    /\ Len(after) = Len(before)
    /\ \A i \in DOMAIN before : after[i].id = before[i].id

\* the todos of before come first in after, unchanged and in their order
OldFirst(before, after) ==
    /\ Len(after) >= Len(before)
    /\ \A i \in DOMAIN before : after[i] = before[i]

\* C11: every operation preserves the insertion order: toggle,
\* updateTodoText, startEditing and saveTodoEdit keep every todo at its
\* position, remove keeps the remaining todos in their relative order, and
\* add puts the new todo after all the todos already present.  For every
\* reachable collection and every argument, in both variants.
C11_OrderPreserved ==
    /\ \A id \in Ids :
          /\ SamePlaces(bTodos, toggleTodo(bTodos, id))
          /\ SamePlaces(bTodos, startEditing(bTodos, id))
          /\ SamePlaces(bTodos, saveTodoEdit(bTodos, id))
          /\ IsSubSeq(removeTodo(bTodos, id), bTodos)
          /\ SamePlaces(oTodos, OptToggleTodo(oTodos, id))
          /\ SamePlaces(oTodos, OptStartEditing(oTodos, id))
          /\ SamePlaces(oTodos, OptSaveTodoEdit(oTodos, id))
          /\ IsSubSeq(OptRemoveTodo(oTodos, id), oTodos)
          /\ \A newText \in Texts :
                /\ SamePlaces(bTodos, updateTodoText(bTodos, id, newText))
                /\ SamePlaces(oTodos, OptUpdateTodoText(oTodos, id, newText))
    /\ \A draft \in Texts :
          /\ OldFirst(bTodos, addTodo(bTodos, draft, now).todos)
          /\ OldFirst(oTodos, handleAdd(oTodos, draft, now).todos)

\* C11's case: two todos with different ids, the first of them open; a
\* toggle of the first changes it and leaves it first.
C11_Witness ==
    /\ Len(bTodos) = 2 /\ Len(oTodos) = 2
    /\ bTodos[1].id # bTodos[2].id
    /\ ~bTodos[1].completed /\ ~oTodos[1].completed
    /\ toggleTodo(bTodos, bTodos[1].id)[1].completed
    /\ toggleTodo(bTodos, bTodos[1].id)[1].id = bTodos[1].id
    /\ OptToggleTodo(oTodos, oTodos[1].id)[1].id = oTodos[1].id

\* C12: in the optimized variant the draft of TodoInput changes only on a
\* keystroke in the draft field or on a submit of a draft that is not blank,
\* which empties it; no other event changes it.  And the collection grows,
\* that is addTodo is invoked, only on a click on Add with a draft that is
\* not blank.
C12_DraftOwnedByInput ==
    [][/\ oNewTodo' # oNewTodo =>
             \/ \E value \in Texts : TypeDraft(value)
             \/ ClickAdd /\ Trim(oNewTodo) # <<>> /\ oNewTodo' = <<>>
       /\ Len(oTodos') > Len(oTodos) =>
             ClickAdd /\ Trim(oNewTodo) # <<>>]_vars

\* C12's case: a draft is in progress while the collection holds a todo
\* that was completed, put in edit mode and given an empty text.
C12_Witness ==
    /\ oNewTodo = <<"a">>
    /\ \E i \in DOMAIN oTodos :
          /\ oTodos[i].completed
          /\ oTodos[i].isEditing
          /\ oTodos[i].text = <<>>

\* C13: in the optimized variant the callbacks passed to TodoItem keep their
\* identity across re-renders of TodoList, so after an operation on one
\* todo (toggleTodo(a), updateTodoText(a, t), ...) the TodoItem of every
\* other todo, whose record is unchanged, is not re-rendered.
C13_OthersNotRerendered ==
    \A id \in Ids :
        Present(oTodos, id) =>
            \A j \in DOMAIN oTodos :
                oTodos[j].id # id => ~ItemRerenders(oTodos, id, j)

\* What memo does give: with the unwrapped callbacks left out of the
\* comparison, only the TodoItems of the todos carrying the id re-render.
C13_OnlyRecordsRerender ==
    \A id \in Ids, j \in DOMAIN oTodos :
        oTodos[j].id # id =>
            /\ ~NewRecord(oTodos, id, j)
            /\ \A name \in ItemCallbacks \cap UseCallback :
                  ~CallbackChanged(name)

\* after is before with isEditing = false in every todo carrying the id,
\* its text as it was, and the collection as long as before
SavedAsIs(before, after, id) ==
    /\ Len(after) = Len(before)
    /\ \A i \in DOMAIN before :
          before[i].id = id =>
              after[i] = [before[i] EXCEPT !.isEditing = FALSE]

\* the todos carrying the id are still there, with the empty text and out
\* of edit mode
SavedEmpty(before, after, id) ==
    /\ Len(after) = Len(before)
    /\ \A i \in DOMAIN before :
          before[i].id = id =>
              /\ after[i].id = id
              /\ after[i].text = <<>>
              /\ after[i].isEditing = FALSE

\* C14: saveTodoEdit(id) sets isEditing = false on the matching todo
\* whatever its text, without validating or changing the text: after
\* startEditing(id), updateTodoText(id, ""), saveTodoEdit(id) the todo is
\* still in the collection, with the empty text and isEditing = false.
\* For every reachable collection and every id, in both variants.
C14_SaveDoesNotValidate ==
    \A id \in Ids :
        /\ SavedAsIs(bTodos, saveTodoEdit(bTodos, id), id)
        /\ SavedAsIs(oTodos, OptSaveTodoEdit(oTodos, id), id)
        /\ SavedEmpty(bTodos,
               saveTodoEdit(
                   updateTodoText(startEditing(bTodos, id), id, <<>>), id),
               id)
        /\ SavedEmpty(oTodos,
               OptSaveTodoEdit(
                   OptUpdateTodoText(OptStartEditing(oTodos, id), id, <<>>),
                   id),
               id)

\* C14's case: a todo with the empty text, out of edit mode, is in the
\* collection; only an edit gives a todo the empty text.
C14_Witness ==
    \E i \in DOMAIN bTodos :
        /\ i \in DOMAIN oTodos
        /\ bTodos[i].text = <<>> /\ ~bTodos[i].isEditing
        /\ oTodos[i].text = <<>> /\ ~oTodos[i].isEditing
        /\ saveTodoEdit(bTodos, bTodos[i].id)[i].text = <<>>

\* after is before with isEditing = true in the todos carrying the id; the
\* todos with another id are as they were, those in edit mode included
EditOpened(before, after, id) ==
    /\ Len(after) = Len(before)
    /\ \A i \in DOMAIN before :
          IF before[i].id = id
          THEN after[i] = [before[i] EXCEPT !.isEditing = TRUE]
          ELSE after[i] = before[i]

\* C15: edit mode is not exclusive: startEditing(id) changes isEditing only
\* on the todo with that id and never clears isEditing of another todo.
\* For every reachable collection and every id, in both variants.  (That
\* two different todos are in edit mode at once is C15_Witness.)
C15_EditNotExclusive ==
    \A id \in Ids :
        /\ EditOpened(bTodos, startEditing(bTodos, id), id)
        /\ EditOpened(oTodos, OptStartEditing(oTodos, id), id)

\* C15's case: two todos with different ids are both in edit mode, and
\* startEditing of the second leaves the first in edit mode.
C15_Witness ==
    /\ Len(bTodos) = 2 /\ Len(oTodos) = 2
    /\ bTodos[1].id # bTodos[2].id /\ oTodos[1].id # oTodos[2].id
    /\ bTodos[1].isEditing /\ bTodos[2].isEditing
    /\ oTodos[1].isEditing /\ oTodos[2].isEditing
    /\ startEditing(bTodos, bTodos[2].id)[1].isEditing
    /\ OptStartEditing(oTodos, oTodos[2].id)[1].isEditing

\* --------------------------------------------------------------- C16
\* The collection that results when an operation is applied to the
\* collection the operations before it left.
AppliedToLatest ==
    /\ HandleClickAdd =>
          /\ bTodos' = addTodo(bTodos, bNewTodo, now).todos
          /\ oTodos' = handleAdd(oTodos, oNewTodo, now).todos
    /\ \A id \in Ids :
          /\ HandleToggleTodo(id) =>
                /\ bTodos' = toggleTodo(bTodos, id)
                /\ oTodos' = OptToggleTodo(oTodos, id)
          /\ HandleRemoveTodo(id) =>
                /\ bTodos' = removeTodo(bTodos, id)
                /\ oTodos' = OptRemoveTodo(oTodos, id)
          /\ HandleStartEditing(id) =>
                /\ bTodos' = startEditing(bTodos, id)
                /\ oTodos' = OptStartEditing(oTodos, id)
          /\ HandleSaveTodoEdit(id) =>
                /\ bTodos' = saveTodoEdit(bTodos, id)
                /\ oTodos' = OptSaveTodoEdit(oTodos, id)
          /\ \A newText \in BatchTexts :
                HandleUpdateTodoText(id, newText) =>
                   /\ bTodos' = updateTodoText(bTodos, id, newText)
                   /\ oTodos' = OptUpdateTodoText(oTodos, id, newText)

\* C16: every operation is applied to the collection produced by all the
\* operations issued before it, also when it is handled by a handler of
\* the render that handled the operation before it; in both variants.
C16_NoOperationLost == [][AppliedToLatest]_vars

\* What does hold: the first event handled after a render is applied to the
\* collection produced by all the operations before it.
C16_NoOperationLost_FirstEvent == [][handled = 0 => AppliedToLatest]_vars

\* What also holds: the optimized variant's toggleTodo and removeTodo,
\* which update from prev, are applied to the latest collection whatever
\* was handled before them in the same render.
C16_PrevUpdatesCompose ==
    [][\A id \in Ids :
          /\ HandleToggleTodo(id) => oTodos' = OptToggleTodo(oTodos, id)
          /\ HandleRemoveTodo(id) => oTodos' = OptRemoveTodo(oTodos, id)]_vars

\* --------------------------------------------------------------- C17
\* In a step that keeps the length of the list, the text of the i-th todo
\* changes only if that todo is being edited when the step starts.
TextChangesOnlyWhileEditing(before, after) ==
    Len(after) = Len(before) =>
       \A i \in DOMAIN before :
          after[i].text # before[i].text => before[i].isEditing

\* C17: along the events of the rendered controls, each handled after the
\* render the one before it caused, the text of a todo changes only in
\* steps where its isEditing is true.
C17_TextChangesOnlyWhileEditing ==
    [][/\ TextChangesOnlyWhileEditing(bTodos, bTodos')
       /\ TextChangesOnlyWhileEditing(oTodos, oTodos')]_vars

\* The same, for the steps that start with pairwise distinct ids.
C17_TextChangesOnlyWhileEditing_IfDistinct ==
    [][/\ Distinct(bTodos) => TextChangesOnlyWhileEditing(bTodos, bTodos')
       /\ Distinct(oTodos) => TextChangesOnlyWhileEditing(oTodos, oTodos')]_vars

\* What the rendered controls do ensure: a keystroke in an edit field and
\* a click on Check reach a todo that is being edited, a click on Pencil
\* one that is not.
C17_EditControlsGated ==
    [][\A i \in 1 .. MaxTodos :
          /\ (\E value \in Texts : TypeEdit(i, value)) => bTodos[i].isEditing
          /\ ClickCheck(i) => bTodos[i].isEditing /\ oTodos[i].isEditing
          /\ ClickPencil(i) => ~bTodos[i].isEditing /\ ~oTodos[i].isEditing]_vars

\* --------------------------------------------------------------- C18
\* the ids do not decrease along the collection
NonDecreasing(todos) ==
    \A i, j \in DOMAIN todos : i < j => todos[i].id <= todos[j].id

\* each todo of before is at its place in after, with the id it had
IdsKept(before, after) ==
    /\ Len(after) >= Len(before)
    /\ \A i \in DOMAIN before : after[i].id = before[i].id

\* after has the same length as before
SameLen(before, after) == Len(after) = Len(before)

\* C18: with a clock that never goes backwards, in every reachable state
\* the ids do not decrease along the collection, and no operation other
\* than removeTodo changes the id a todo carries: addTodo keeps the ids of
\* the todos it appends to, and toggleTodo, startEditing, updateTodoText
\* and saveTodoEdit keep every id in its place.
C18_IdsMonotoneAndKept ==
    /\ NonDecreasing(bTodos)
    /\ NonDecreasing(oTodos)
    /\ IdsKept(bTodos, addTodo(bTodos, bNewTodo, now).todos)
    /\ IdsKept(oTodos, handleAdd(oTodos, oNewTodo, now).todos)
    /\ \A id \in Ids :
          /\ IdsKept(bTodos, toggleTodo(bTodos, id))
          /\ SameLen(bTodos, toggleTodo(bTodos, id))
          /\ IdsKept(bTodos, startEditing(bTodos, id))
          /\ SameLen(bTodos, startEditing(bTodos, id))
          /\ IdsKept(bTodos, saveTodoEdit(bTodos, id))
          /\ SameLen(bTodos, saveTodoEdit(bTodos, id))
          /\ IdsKept(oTodos, OptToggleTodo(oTodos, id))
          /\ SameLen(oTodos, OptToggleTodo(oTodos, id))
          /\ IdsKept(oTodos, OptStartEditing(oTodos, id))
          /\ SameLen(oTodos, OptStartEditing(oTodos, id))
          /\ IdsKept(oTodos, OptSaveTodoEdit(oTodos, id))
          /\ SameLen(oTodos, OptSaveTodoEdit(oTodos, id))
          /\ \A newText \in Texts :
                /\ IdsKept(bTodos, updateTodoText(bTodos, id, newText))
                /\ SameLen(bTodos, updateTodoText(bTodos, id, newText))
                /\ IdsKept(oTodos, OptUpdateTodoText(oTodos, id, newText))
                /\ SameLen(oTodos, OptUpdateTodoText(oTodos, id, newText))

\* Two todos added at different clock readings, the first one toggled and
\* the second one being edited since.
C18_Witness ==
    /\ Len(bTodos) = 2 /\ Len(oTodos) = 2
    /\ bTodos[1].id < bTodos[2].id
    /\ oTodos[1].id < oTodos[2].id
    /\ bTodos[1].completed /\ oTodos[1].completed
    /\ bTodos[2].isEditing /\ oTodos[2].isEditing

=============================================================================
